---- MODULE Spec2Model ----
(***************************************************************************)
(* Model of malloy_mcp_server.api_client: MalloyAPIClient (client.py) and  *)
(* the pydantic records it decodes into (models.py).                       *)
(*                                                                         *)
(* A JSON value is a record [kind, f, items]: kind "text" is a body that   *)
(* is not JSON; "null", "number" and "string" are JSON scalars; "object"   *)
(* carries its members in f (a function from keys to member values);       *)
(* "array" carries its elements in items.  A member value is a token: a    *)
(* JSON string is the string itself, a JSON number is a token of Numbers.  *)
(***************************************************************************)
EXTENDS Integers, Sequences, FiniteSets, TLC

VARIABLES
    transport,   \* "open" or "closed": the httpx client behind self.client
    closes,      \* close() calls made so far
    closeError,  \* the exception the last close() raised, "none" if none
    scope,       \* "none", "inside" or "exited": the with block around the client
    raising,     \* an exception of the last call is unwinding the with block
    propagated,  \* the exception that left the with block, "none" if none
    calls,       \* operation calls made so far
    rejected,    \* those that raised before any request
    sent,        \* GETs handed to the transport so far
    last         \* the call in progress or last completed

vars == <<transport, closes, closeError, scope, raising, propagated,
          calls, rejected, sent, last>>

\* ----------------------------------------------------------------- bounds
\* Operation calls made on one client.
MaxCalls == 2
\* close() calls (direct or through __exit__) made on one client.
MaxCloses == 2
\* Elements of a JSON array in a response body.
MaxItems == 2

\* ------------------------------------------------------------ JSON values
\* Python's None, for the optional str fields and arguments.
None == "<None>"

\* bool(v) of an optional str: None and "" are falsy.
Truthy(v) == v /= None /\ v /= ""

\* Tokens standing for JSON numbers (an integer and a non-integer).
Numbers == {"#7", "#1.5"}

NoMembers == [k \in {} |-> ""]

Scalar(kind) == [kind |-> kind, f |-> NoMembers, items |-> <<>>]

Object(f) == [kind |-> "object", f |-> f, items |-> <<>>]

Array(items) == [kind |-> "array", f |-> NoMembers, items |-> items]

\* All objects whose keys are a subset of keys, the member of key k drawn
\* from vals[k].
Objects(keys, vals) ==
    UNION {{f \in [S -> UNION {vals[k] : k \in S}] : \A k \in S : f[k] \in vals[k]}
           : S \in SUBSET keys}

\* f with member k set to v (data[k] = v).
SetItem(f, k, v) == [x \in DOMAIN f \cup {k} |-> IF x = k THEN v ELSE f[x]]

\* f without member k (the effect of data.pop(k) on data).
DelItem(f, k) == [x \in DOMAIN f \ {k} |-> f[x]]

\* Sequences of at most n elements of S.
SeqUpTo(S, n) == UNION {[1..m -> S] : m \in 0..n}

\* ------------------------------------------------------- models.py records
\* Wire key -> declared type, per record class.
Schema(cls) ==
    CASE cls = "Error"       -> [k \in {"code", "message"} |-> "str"]
      [] cls = "About"       -> [k \in {"readme"} |-> "str"]
      [] cls = "Project"     -> [k \in {"name"} |-> "str"]
      [] cls = "Package"     -> [k \in {"name", "description"} |-> "str"]
      [] cls = "Model"       -> [k \in {"packageName", "path", "type"} |->
                                   IF k = "type" THEN "ModelType" ELSE "str"]
      [] cls = "QueryResult" -> [k \in {"dataStyles", "modelDef", "queryResult"} |-> "str"]
      [] cls = "Database"    -> [k \in {"path", "size"} |->
                                   IF k = "size" THEN "int" ELSE "str"]
      [] cls = "Schedule"    -> [k \in {"resource", "schedule", "action", "connection",
                                        "lastRunTime", "lastRunStatus"} |->
                                   IF k = "lastRunTime" THEN "float" ELSE "str"]

\* Wire key (alias) -> attribute name of the record.
Attr(k) ==
    CASE k = "packageName"   -> "package_name"
      [] k = "dataStyles"    -> "data_styles"
      [] k = "modelDef"      -> "model_def"
      [] k = "queryResult"   -> "query_result"
      [] k = "lastRunTime"   -> "last_run_time"
      [] k = "lastRunStatus" -> "last_run_status"
      [] OTHER               -> k

ModelType == {"source", "notebook"}

\* Whether the validator takes member value v for a field of type t.
Accepts(t, v) ==
    CASE t = "str"       -> v \notin Numbers
      [] t = "int"       -> v = "#7"
      [] t = "float"     -> v \in Numbers
      [] t = "ModelType" -> v \in ModelType

\* The fields a ValidationError reports: missing or wrongly typed.
FieldErrors(cls, f) ==
    {k \in DOMAIN Schema(cls) : k \notin DOMAIN f \/ ~Accepts(Schema(cls)[k], f[k])}

\* str(e) of a pydantic ValidationError: its headline.
ValidationErrorStr(n) ==
    IF n = 1 THEN "1 validation error" ELSE "several validation errors"

\* The record Cls(**f) builds from a valid object: attribute -> value.
Decoded(cls, f) ==
    LET keys == DOMAIN Schema(cls)
    IN [a \in {Attr(k) : k \in keys} |-> f[CHOOSE k \in keys : Attr(k) = a]]

\* ----------------------------------------------------------------- outcomes
\* What a call does: it returns value (a sequence of records: one for a
\* single-record operation), or raises the exception named by kind.
Outcome(kind, status_code, message, value) ==
    [kind |-> kind, status_code |-> status_code, message |-> message, value |-> value]

Raise(kind) == Outcome(kind, 0, "", <<>>)

Return(value) == Outcome("return", 0, "", value)

APIError(status_code, message) == Outcome("APIError", status_code, message, <<>>)

\* Cls(**v): ** needs a mapping; pydantic then validates the members.
Construct(cls, v) ==
    IF v.kind /= "object" THEN Raise("TypeError")
    ELSE IF FieldErrors(cls, v.f) /= {} THEN Raise("ValidationError")
    ELSE Return(<<Decoded(cls, v.f)>>)

\* [Cls(**x) for x in items]: the first element that fails raises.
RECURSIVE ConstructAll(_, _)
ConstructAll(cls, items) ==
    IF items = <<>> THEN Return(<<>>)
    ELSE LET h == Construct(cls, Head(items))
         IN IF h.kind /= "return" THEN h
            ELSE LET t == ConstructAll(cls, Tail(items))
                 IN IF t.kind /= "return" THEN t ELSE Return(h.value \o t.value)

\* What "for x in data" yields: the elements of an array, the keys of an
\* object, the characters of a string; null and numbers are not iterable.
Iterable(data) == data.kind \in {"array", "object", "string"}

Elements(data) ==
    CASE data.kind = "array"  -> data.items
      [] data.kind = "object" -> [i \in 1..Cardinality(DOMAIN data.f) |-> Scalar("string")]
      [] data.kind = "string" -> <<Scalar("string")>>

\* return [Cls(**x) for x in data]
ConstructList(cls, data) ==
    IF ~Iterable(data) THEN Raise("TypeError")
    ELSE ConstructAll(cls, Elements(data))

\* ------------------------------------------------------------- client.py
HTTP_ERROR_STATUS == 400

\* Status codes the server answers with.
Statuses == {200, 400, 404}

\* The transport raised instead of answering (timeout, refused, closed client).
Failure == [failed |-> TRUE, status_code |-> 0, body |-> Scalar("null")]

Response(status_code, body) ==
    [failed |-> FALSE, status_code |-> status_code, body |-> body]

\* self.client.get(...): a closed httpx client refuses every request.
Get(bodies) ==
    IF transport = "closed" THEN {Failure}
    ELSE {Failure} \cup {Response(s, b) : s \in Statuses, b \in bodies}

\* The try block of _handle_response: Error(**response.json()) and the
\* APIError raised from it; only a ValidationError is caught.
RaiseAPIError(response) ==
    IF response.body.kind = "text" THEN Raise("JSONDecodeError")
    ELSE LET error == Construct("Error", response.body)
         IN CASE error.kind = "return" ->
                   APIError(response.status_code, error.value[1].message)
              [] error.kind = "ValidationError" ->
                   APIError(response.status_code,
                            ValidationErrorStr(
                                Cardinality(FieldErrors("Error", response.body.f))))
              [] OTHER -> error

\* Mutant: the status test written > instead of >=.
_handle_response_gt(response) ==
    IF response.status_code > HTTP_ERROR_STATUS THEN RaiseAPIError(response)
    ELSE IF response.body.kind = "text" THEN Raise("JSONDecodeError")
         ELSE Return(<<>>)

\* MalloyAPIClient._handle_response: kind "return" stands for returning
\* response.json(), which is response.body.
_handle_response(response) ==
    IF response.status_code >= HTTP_ERROR_STATUS THEN RaiseAPIError(response)
    ELSE IF response.body.kind = "text" THEN Raise("JSONDecodeError")
         ELSE Return(<<>>)

\* ------------------------------------------------------ arguments, bodies
Projects == {"home"}

Packages == {"faa", "imdb"}

\* Values of an optional str argument or QueryParams field.
Optional(v) == {None, "", v}

\* Bodies that are no JSON object or array.
NonObjects == {Scalar("text"), Scalar("null"), Scalar("string")}

\* Error bodies, well formed and malformed: {code, message} with either
\* member absent, or message a number.
ErrorBodies ==
    {Object(f) : f \in Objects({"code", "message"},
                               [code |-> {"NOT_FOUND"},
                                message |-> {"no such package", "#7"}])}

\* Bodies of a single-record operation.
RecordBodies(objects) == NonObjects \cup ErrorBodies \cup objects

\* Bodies of a list operation: arrays of at most MaxItems elements.
ListBodies(elements) ==
    NonObjects \cup ErrorBodies \cup {Array(a) : a \in SeqUpTo(elements, MaxItems)}

AboutBodies ==
    RecordBodies({Object(f) : f \in Objects({"readme"}, [readme |-> {"# Malloy", "#7"}])})

\* A Project, an element without name, an element that is no object.
ProjectElements ==
    {Object(f) : f \in Objects({"name"}, [name |-> {"home"}])} \cup {Scalar("string")}

PackageBodies ==
    RecordBodies({Object(f) : f \in Objects({"name", "description"},
                                            [name |-> {"faa"},
                                             description |-> {"FAA flights", "#7"}])})

\* A Package, one without description, one whose description is a number.
PackageElements ==
    {Object(f @@ [k \in {"name"} |-> "faa"]) :
        f \in Objects({"description"}, [description |-> {"FAA flights", "#7"}])}

ModelBodies ==
    RecordBodies({Object(f) : f \in Objects({"modelPath", "path", "packageName", "type"},
                                            [modelPath |-> {"a/b.malloy", "#7"},
                                             path |-> {"stale.malloy"},
                                             packageName |-> {"imdb"},
                                             type |-> {"source", "view"}])})

\* A Model with and without the server's packageName, one without type.
ModelElements ==
    {Object(f @@ [k \in {"path"} |-> "a/b.malloy"]) :
        f \in {g \in Objects({"packageName", "type"},
                             [packageName |-> {"imdb"}, type |-> {"notebook"}]) :
                 DOMAIN g /= {}}}

QueryResultBodies ==
    RecordBodies({Object(f @@ [k \in {"dataStyles", "modelDef"} |-> "{}"]) :
                    f \in Objects({"queryResult"}, [queryResult |-> {"[]", "#7"}])})

\* A Database, one without size, one whose size is a string.
DatabaseElements ==
    {Object(f @@ [k \in {"path"} |-> "flights.parquet"]) :
        f \in Objects({"size"}, [size |-> {"#7", "big"}])}

ScheduleBase ==
    [k \in {"resource", "schedule", "action", "connection", "lastRunStatus"} |->
        CASE k = "resource" -> "flights" [] k = "schedule" -> "0 * * * *"
          [] k = "action" -> "refresh" [] k = "connection" -> "duckdb"
          [] k = "lastRunStatus" -> "ok"]

\* A Schedule, one without lastRunTime, one whose lastRunTime is a string.
ScheduleElements ==
    {Object(f @@ ScheduleBase) :
        f \in Objects({"lastRunTime"}, [lastRunTime |-> {"#1.5", "never"}])}

\* ------------------------------------------------------------ bookkeeping
NoRequest == [url |-> <<>>, params |-> NoMembers]

Request(url, params) == [url |-> url, params |-> params]

NoResponse == [failed |-> FALSE, status_code |-> 0, body |-> Scalar("null")]

\* params = {"versionId": version_id} if version_id else {}
VersionParams(version_id) ==
    IF Truthy(version_id) THEN [k \in {"versionId"} |-> version_id] ELSE NoMembers

\* The calling thread is blocked in self.client.get.
InFlight == last.outcome.kind = "pending"

CanCall == ~raising /\ ~InFlight /\ calls < MaxCalls

\* response = self.client.get(url, params=params): the request goes out and
\* the call waits for the transport.
Issue(op, args, request) ==
    /\ calls' = calls + 1
    /\ sent' = sent + 1
    /\ last' = [op |-> op, args |-> args, sent |-> TRUE, request |-> request,
                response |-> NoResponse, outcome |-> Raise("pending")]
    /\ UNCHANGED <<transport, closes, closeError, scope, raising, propagated, rejected>>

\* Mutant: the parameters are checked only after the request has gone out.
Rejected_after_get(op, args, outcome) ==
    /\ calls' = calls + 1
    /\ rejected' = rejected + 1
    /\ sent' = sent + 1
    /\ last' = [op |-> op, args |-> args, sent |-> FALSE, request |-> NoRequest,
                response |-> NoResponse, outcome |-> outcome]
    /\ raising' = (scope = "inside")
    /\ UNCHANGED <<transport, closes, closeError, scope, propagated>>

\* A call that raised before reaching self.client.get.  An exception raised
\* inside a with block starts unwinding it.
Rejected(op, args, outcome) ==
    /\ calls' = calls + 1
    /\ rejected' = rejected + 1
    /\ last' = [op |-> op, args |-> args, sent |-> FALSE, request |-> NoRequest,
                response |-> NoResponse, outcome |-> outcome]
    /\ raising' = (scope = "inside")
    /\ UNCHANGED <<transport, closes, closeError, scope, propagated, sent>>

\* What follows the GET in every operation: the transport's exception, or
\* _handle_response's, or what decoding the data gives.
Handled(response, decoded) ==
    IF response.failed THEN Raise("TransportError")
    ELSE LET h == _handle_response(response)
         IN IF h.kind /= "return" THEN h ELSE decoded

\* ------------------------------------------- operations, up to their GET
list_projects ==
    /\ CanCall
    /\ Issue("list_projects", NoMembers, Request(<<"api", "v0", "projects">>, NoMembers))

get_about ==
    /\ CanCall
    /\ \E project_name \in Projects :
         Issue("get_about", [project_name |-> project_name],
               Request(<<"api", "v0", "projects", project_name, "about">>, NoMembers))

list_packages ==
    /\ CanCall
    /\ \E project_name \in Projects :
         Issue("list_packages", [project_name |-> project_name],
               Request(<<"api", "v0", "projects", project_name, "packages">>, NoMembers))

get_package ==
    /\ CanCall
    /\ \E project_name \in Projects, package_name \in {"faa"},
          version_id \in Optional("v1") :
         Issue("get_package",
               [project_name |-> project_name, package_name |-> package_name,
                version_id |-> version_id],
               Request(<<"api", "v0", "projects", project_name, "packages", package_name>>,
                       VersionParams(version_id)))

list_models ==
    /\ CanCall
    /\ \E project_name \in Projects, package_name \in Packages,
          version_id \in Optional("v1") :
         Issue("list_models",
               [project_name |-> project_name, package_name |-> package_name,
                version_id |-> version_id],
               Request(<<"api", "v0", "projects", project_name, "packages", package_name,
                         "models">>, VersionParams(version_id)))

get_model ==
    /\ CanCall
    /\ \E project_name \in Projects, package_name \in Packages,
          model_name \in {"a/b.malloy"} :
         Issue("get_model",
               [project_name |-> project_name, package_name |-> package_name,
                model_name |-> model_name],
               Request(<<"api", "v0", "projects", project_name, "packages", package_name,
                         "models", model_name>>, NoMembers))

list_databases ==
    /\ CanCall
    /\ \E project_name \in Projects, package_name \in {"faa"},
          version_id \in Optional("v1") :
         Issue("list_databases",
               [project_name |-> project_name, package_name |-> package_name,
                version_id |-> version_id],
               Request(<<"api", "v0", "projects", project_name, "packages", package_name,
                         "databases">>, VersionParams(version_id)))

list_schedules ==
    /\ CanCall
    /\ \E project_name \in Projects, package_name \in {"faa"},
          version_id \in Optional("v1") :
         Issue("list_schedules",
               [project_name |-> project_name, package_name |-> package_name,
                version_id |-> version_id],
               Request(<<"api", "v0", "projects", project_name, "packages", package_name,
                         "schedules">>, VersionParams(version_id)))

\* --------------------------------------------------------- execute_query
QueryParams ==
    [project_name : Projects, package_name : {"faa"}, path : {"flights.malloy"},
     query : Optional("run: flights -> top_carriers"),
     source_name : Optional("flights"),
     query_name : Optional("top_carriers"),
     version_id : {None, "v1"}]

\* Mutant: the mutual-exclusion check is missing.
CheckParams_no_exclusion(params) ==
    IF Truthy(params.query_name) /\ ~Truthy(params.source_name)
    THEN "source_name is required when query_name is specified"
    ELSE None

\* Mutant: source_name is tested against None instead of for truth.
CheckParams_is_none(params) ==
    IF Truthy(params.query) /\ Truthy(params.query_name)
    THEN "Cannot specify both query and query_name parameters"
    ELSE IF Truthy(params.query_name) /\ params.source_name = None
    THEN "source_name is required when query_name is specified"
    ELSE None

\* The two checks that open execute_query: the ValueError's message, or
\* None when params pass.
CheckParams(params) ==
    IF Truthy(params.query) /\ Truthy(params.query_name)
    THEN "Cannot specify both query and query_name parameters"
    ELSE IF Truthy(params.query_name) /\ ~Truthy(params.source_name)
    THEN "source_name is required when query_name is specified"
    ELSE None

\* request_params, after the "if v is not None" comprehension.
RequestParams(params) ==
    LET all == [k \in {"versionId", "query", "sourceName", "queryName"} |->
                   CASE k = "versionId"  -> params.version_id
                     [] k = "query"      -> params.query
                     [] k = "sourceName" -> params.source_name
                     [] k = "queryName"  -> params.query_name]
    IN [k \in {k \in DOMAIN all : all[k] /= None} |-> all[k]]

execute_query ==
    /\ CanCall
    /\ \E params \in QueryParams :
         LET error == CheckParams(params)
         IN IF error /= None
            THEN Rejected("execute_query", params, Outcome("ValueError", 0, error, <<>>))
            ELSE Issue("execute_query", params,
                       Request(<<"api", "v0", "projects", params.project_name,
                                 "packages", params.package_name, "queryResults",
                                 params.path>>, RequestParams(params)))

\* Mutant: the except clause also catches the APIError of _handle_response.
StatusErrorHandler_catches_APIError(outcome) ==
    IF outcome.kind \notin {"HTTPStatusError", "APIError"} THEN outcome
    ELSE CASE outcome.status_code = 400 ->
                APIError(400, "Bad request - invalid query parameters")
           [] outcome.status_code = 401 ->
                APIError(401, "Unauthorized - authentication required")
           [] outcome.status_code = 404 ->
                APIError(404, "Not found - project, package, or model not found")
           [] outcome.status_code = 500 -> APIError(500, "Internal server error")
           [] outcome.status_code = 501 -> APIError(501, "Not implemented")
           [] OTHER -> outcome

\* except httpx.HTTPStatusError as e: fixed messages for five status codes,
\* re-raised otherwise; every other outcome passes through.
StatusErrorHandler(outcome) ==
    IF outcome.kind /= "HTTPStatusError" THEN outcome
    ELSE CASE outcome.status_code = 400 ->
                APIError(400, "Bad request - invalid query parameters")
           [] outcome.status_code = 401 ->
                APIError(401, "Unauthorized - authentication required")
           [] outcome.status_code = 404 ->
                APIError(404, "Not found - project, package, or model not found")
           [] outcome.status_code = 500 -> APIError(500, "Internal server error")
           [] outcome.status_code = 501 -> APIError(501, "Not implemented")
           [] OTHER -> outcome

\* ------------------------------------------ operations, after their GET
\* for model in data: model["packageName"] = package_name
\* return [Model(**model) for model in data]
StampModels(data, package_name) ==
    IF ~Iterable(data) THEN Raise("TypeError")
    ELSE LET items == Elements(data)
         IN IF \E i \in DOMAIN items : items[i].kind /= "object"
            THEN Raise("TypeError")
            ELSE ConstructAll("Model",
                     [i \in DOMAIN items |->
                         Object(SetItem(items[i].f, "packageName", package_name))])

\* Mutant: the packageName the server sent is kept.
RenameModel_unstamped(data, package_name) ==
    CASE data.kind = "object" ->
           IF "modelPath" \notin DOMAIN data.f THEN Raise("KeyError")
           ELSE Construct("Model",
                    Object(SetItem(DelItem(data.f, "modelPath"),
                                   "path", data.f["modelPath"])))
      [] data.kind = "array" -> Raise("TypeError")
      [] OTHER -> Raise("AttributeError")

\* data["path"] = data.pop("modelPath"); data["packageName"] = package_name
\* return Model(**data)
RenameModel(data, package_name) ==
    CASE data.kind = "object" ->
           IF "modelPath" \notin DOMAIN data.f THEN Raise("KeyError")
           ELSE Construct("Model",
                    Object(SetItem(SetItem(DelItem(data.f, "modelPath"),
                                           "path", data.f["modelPath"]),
                                   "packageName", package_name)))
      [] data.kind = "array" -> Raise("TypeError")
      [] OTHER -> Raise("AttributeError")

\* The bodies the server may answer an operation's GET with.
Bodies(op) ==
    CASE op = "list_projects"  -> ListBodies(ProjectElements)
      [] op = "get_about"      -> AboutBodies
      [] op = "list_packages"  -> ListBodies(PackageElements)
      [] op = "get_package"    -> PackageBodies
      [] op = "list_models"    -> ListBodies(ModelElements)
      [] op = "get_model"      -> ModelBodies
      [] op = "execute_query"  -> QueryResultBodies
      [] op = "list_databases" -> ListBodies(DatabaseElements)
      [] op = "list_schedules" -> ListBodies(ScheduleElements)

\* The rest of each operation once self.client.get has come back.
Result(op, args, response) ==
    CASE op = "list_projects" ->
           Handled(response, ConstructList("Project", response.body))
      [] op = "get_about" ->
           Handled(response, Construct("About", response.body))
      [] op = "list_packages" ->
           Handled(response, ConstructList("Package", response.body))
      [] op = "get_package" ->
           Handled(response, Construct("Package", response.body))
      [] op = "list_models" ->
           Handled(response, StampModels(response.body, args.package_name))
      [] op = "get_model" ->
           Handled(response, RenameModel(response.body, args.package_name))
      [] op = "execute_query" ->
           StatusErrorHandler(
               Handled(response, Construct("QueryResult", response.body)))
      [] op = "list_databases" ->
           Handled(response, ConstructList("Database", response.body))
      [] op = "list_schedules" ->
           Handled(response, ConstructList("Schedule", response.body))

\* self.client.get comes back, with a response or an exception, and the
\* operation runs to its end.  An exception raised inside a with block
\* starts unwinding it.
Respond ==
    /\ InFlight
    /\ \E response \in Get(Bodies(last.op)) :
         LET outcome == Result(last.op, last.args, response)
         IN /\ last' = [last EXCEPT !.response = response, !.outcome = outcome]
            /\ raising' = (scope = "inside" /\ outcome.kind /= "return")
    /\ UNCHANGED <<transport, closes, closeError, scope, propagated,
                   calls, rejected, sent>>

\* ------------------------------------------------------- close, with block
\* Mutant: closing a closed client raises.
close_once ==
    /\ closes < MaxCloses
    /\ transport' = "closed"
    /\ closes' = closes + 1
    /\ closeError' = IF transport = "closed" THEN "RuntimeError" ELSE "none"

\* self.client.close(): releases the transport, whatever its state.
close ==
    /\ closes < MaxCloses
    /\ transport' = "closed"
    /\ closes' = closes + 1
    /\ closeError' = "none"

\* The caller calls client.close().
CallClose ==
    /\ ~raising /\ ~InFlight
    /\ close
    /\ UNCHANGED <<scope, raising, propagated, calls, rejected, sent, last>>

\* with MalloyAPIClient(...) as client: __enter__ returns self.
__enter__ ==
    /\ ~raising /\ ~InFlight
    /\ scope = "none"
    /\ scope' = "inside"
    /\ UNCHANGED <<transport, closes, closeError, raising, propagated,
                   calls, rejected, sent, last>>

\* Mutant: the client is closed only when the block ends without exception.
__exit__on_success(exc_type) ==
    /\ IF exc_type = "none" THEN close
       ELSE closes < MaxCloses /\ UNCHANGED <<transport, closes, closeError>>
    /\ scope' = "exited"
    /\ propagated' = exc_type
    /\ raising' = FALSE
    /\ UNCHANGED <<calls, rejected, sent, last>>

\* __exit__(exc_type, ...) closes and returns None, so an exception that is
\* leaving the block goes on to the caller.
__exit__(exc_type) ==
    /\ close
    /\ scope' = "exited"
    /\ propagated' = exc_type
    /\ raising' = FALSE
    /\ UNCHANGED <<calls, rejected, sent, last>>

\* Control leaves the with block: at its end, or with the exception of the
\* last call.
LeaveWith ==
    /\ scope = "inside" /\ ~InFlight
    /\ __exit__(IF raising THEN last.outcome.kind ELSE "none")

\* The block's body handles the exception itself (pytest.raises in the
\* tests) and goes on.
Catch ==
    /\ scope = "inside"
    /\ raising
    /\ raising' = FALSE
    /\ UNCHANGED <<transport, closes, closeError, scope, propagated,
                   calls, rejected, sent, last>>

\* ---------------------------------------------------------- specification
\* The client after __init__: an open transport, nothing requested.
Init ==
    /\ transport = "open"
    /\ closes = 0
    /\ closeError = "none"
    /\ scope = "none"
    /\ raising = FALSE
    /\ propagated = "none"
    /\ calls = 0
    /\ rejected = 0
    /\ sent = 0
    /\ last = [op |-> "none", args |-> NoMembers, sent |-> FALSE, request |-> NoRequest,
               response |-> NoResponse, outcome |-> Return(<<>>)]

Next ==
    \/ list_projects
    \/ get_about
    \/ list_packages
    \/ get_package
    \/ list_models
    \/ get_model
    \/ execute_query
    \/ list_databases
    \/ list_schedules
    \/ Respond
    \/ CallClose
    \/ __enter__
    \/ LeaveWith
    \/ Catch

Spec == Init /\ [][Next]_vars

\* -------------------------------------------------------------- properties
\* A call has run to its end (returned or raised).
Completed == last.op /= "none" /\ ~InFlight

\* The last call got a response (the transport did not raise).
Answered == Completed /\ last.sent /\ ~last.response.failed

\* A JSON object with string members code and message.
WellFormedError(body) ==
    /\ body.kind = "object"
    /\ {"code", "message"} \subseteq DOMAIN body.f
    /\ body.f["code"] \notin Numbers
    /\ body.f["message"] \notin Numbers

\* C1: whatever the operation, a response with status >= 400 whose body is an
\* object with string members code and message makes the call raise APIError
\* with that status code and the body's message; no result is returned.
C1_ErrorResponseRaisesAPIError ==
    (/\ Answered
     /\ last.response.status_code >= 400
     /\ WellFormedError(last.response.body))
        => last.outcome = APIError(last.response.status_code,
                                   last.response.body.f["message"])

C1_Witness ==
    /\ Answered
    /\ last.op = "execute_query"
    /\ last.response.status_code = 404
    /\ WellFormedError(last.response.body)
    /\ last.outcome = APIError(404, "no such package")

\* C2: execute_query with query and query_name both non-empty raises the
\* ValueError "Cannot specify both query and query_name parameters", whatever
\* the other fields, and no request has been sent for it.
C2_BothQueryAndNameRejected ==
    (/\ Completed
     /\ last.op = "execute_query"
     /\ Truthy(last.args.query)
     /\ Truthy(last.args.query_name))
        => /\ last.outcome.kind = "ValueError"
           /\ last.outcome.message = "Cannot specify both query and query_name parameters"
           /\ ~last.sent
           /\ last.request = NoRequest

C2_Witness ==
    /\ Completed
    /\ last.op = "execute_query"
    /\ Truthy(last.args.query)
    /\ Truthy(last.args.query_name)
    /\ Truthy(last.args.source_name)
    /\ last.args.version_id = "v1"
    /\ last.outcome.kind = "ValueError"
    /\ sent = 0

\* C3: execute_query with a non-empty query_name and a source_name that is
\* None or "" raises ValueError, and no request has been sent for it.
C3_NameWithoutSourceRejected ==
    (/\ Completed
     /\ last.op = "execute_query"
     /\ Truthy(last.args.query_name)
     /\ ~Truthy(last.args.source_name))
        => /\ last.outcome.kind = "ValueError"
           /\ ~last.sent
           /\ last.request = NoRequest

C3_Witness ==
    /\ Completed
    /\ last.op = "execute_query"
    /\ Truthy(last.args.query_name)
    /\ last.args.source_name = ""
    /\ ~Truthy(last.args.query)
    /\ last.outcome = Outcome("ValueError", 0,
                              "source_name is required when query_name is specified", <<>>)
    /\ sent = 0

\* The QueryParams field a query parameter of execute_query carries.
Field(params, k) ==
    CASE k = "versionId"  -> params.version_id
      [] k = "query"      -> params.query
      [] k = "sourceName" -> params.source_name
      [] k = "queryName"  -> params.query_name

\* C4: the query parameters of the GET execute_query sends are exactly the
\* non-empty fields among version_id, query, source_name, query_name: a key is
\* sent if and only if its field is non-empty, with the field's value.
C4_OnlyNonEmptyParamsSent ==
    (last.op = "execute_query" /\ last.sent)
        => \A k \in {"versionId", "query", "sourceName", "queryName"} :
              /\ (k \in DOMAIN last.request.params) <=> Truthy(Field(last.args, k))
              /\ (k \in DOMAIN last.request.params)
                    => last.request.params[k] = Field(last.args, k)

ListOps == {"list_projects", "list_packages", "list_models", "list_databases",
            "list_schedules"}

\* The members the server has to send for an operation's record: the record's
\* fields, but modelPath for path in get_model, and no packageName for a Model.
Required(op) ==
    CASE op = "list_projects"  -> Schema("Project")
      [] op = "get_about"      -> Schema("About")
      [] op \in {"list_packages", "get_package"} -> Schema("Package")
      [] op = "list_models"    -> [k \in {"path", "type"} |->
                                     IF k = "type" THEN "ModelType" ELSE "str"]
      [] op = "get_model"      -> [k \in {"modelPath", "type"} |->
                                     IF k = "type" THEN "ModelType" ELSE "str"]
      [] op = "execute_query"  -> Schema("QueryResult")
      [] op = "list_databases" -> Schema("Database")
      [] op = "list_schedules" -> Schema("Schedule")

\* An object with a required member missing or wrongly typed.
Lacks(op, f) ==
    \E k \in DOMAIN Required(op) : k \notin DOMAIN f \/ ~Accepts(Required(op)[k], f[k])

\* A body of the right JSON kind (an object, or an array of objects) in which
\* a required member is missing or wrongly typed.
Mismatch(op, body) ==
    IF op \in ListOps
    THEN /\ body.kind = "array"
         /\ \A i \in DOMAIN body.items : body.items[i].kind = "object"
         /\ \E i \in DOMAIN body.items : Lacks(op, body.items[i].f)
    ELSE body.kind = "object" /\ Lacks(op, body.f)

\* C5: whatever the operation, a response with status < 400 whose body has a
\* required member missing or wrongly typed makes the whole call fail with
\* the schema validation error (pydantic's ValidationError), not with
\* APIError, and nothing is returned.
C5_BadBodyRaisesValidationError ==
    (/\ Answered
     /\ last.response.status_code < 400
     /\ Mismatch(last.op, last.response.body))
        => last.outcome = Raise("ValidationError")

\* C6: whatever the operation, a response with status >= 400 whose body is
\* no well-formed error body (members missing or wrongly typed, JSON that is
\* no object, no JSON at all) still makes the call raise APIError with the
\* response's status code and the decode failure's text as message.
C6_MalformedErrorBodyRaisesAPIError ==
    (/\ Answered
     /\ last.response.status_code >= 400
     /\ ~WellFormedError(last.response.body))
        => /\ last.outcome.kind = "APIError"
           /\ last.outcome.status_code = last.response.status_code
           /\ last.outcome.message \in {ValidationErrorStr(1), ValidationErrorStr(2)}

\* C7: the GETs sent are as many as the operation calls that were not
\* rejected by execute_query's parameter checks: one per such call whatever
\* its outcome, none for close, the with block or a rejected call.
C7_OneRequestPerAcceptedCall == sent = calls - rejected

C7_Witness ==
    /\ calls = 2
    /\ rejected = 1
    /\ sent = 1
    /\ closes >= 1
    /\ Completed
    /\ last.sent
    /\ last.outcome.kind = "APIError"

\* C8: close is idempotent: once close has been called, however often and
\* after whatever calls, the transport is closed and no close has raised.
C8_CloseIdempotent ==
    closes >= 1 => (transport = "closed" /\ closeError = "none")

C8_Witness ==
    /\ closes >= 2
    /\ calls >= 1
    /\ transport = "closed"
    /\ closeError = "none"

\* C9: whenever control leaves the with block, normally or with the exception
\* of a call made in it, the transport is closed, and that exception (if any)
\* goes on to the caller.
C9_WithBlockCloses ==
    [][(scope = "inside" /\ scope' = "exited")
          => /\ transport' = "closed"
             /\ closes' = closes + 1
             /\ propagated' = IF raising THEN last.outcome.kind ELSE "none"]_vars

C9_Witness ==
    /\ scope = "exited"
    /\ transport = "closed"
    /\ closes = 1
    /\ propagated = "APIError"
    /\ last.outcome.kind = "APIError"

\* C10: the Model get_model returns has path equal to the wire member
\* modelPath and package_name equal to the package_name argument, and every
\* Model list_models returns has package_name equal to the argument, whatever
\* packageName the server sent.
C10_ModelPathAndPackageName ==
    (Completed /\ last.outcome.kind = "return")
        => /\ last.op = "get_model"
                => /\ Len(last.outcome.value) = 1
                   /\ last.outcome.value[1].path = last.response.body.f["modelPath"]
                   /\ last.outcome.value[1].package_name = last.args.package_name
           /\ last.op = "list_models"
                => /\ Len(last.outcome.value) = Len(last.response.body.items)
                   /\ \A i \in DOMAIN last.outcome.value :
                         last.outcome.value[i].package_name = last.args.package_name

C10_Witness ==
    /\ Completed
    /\ last.op = "get_model"
    /\ last.outcome.kind = "return"
    /\ last.args.package_name = "faa"
    /\ "packageName" \in DOMAIN last.response.body.f
    /\ last.response.body.f["packageName"] = "imdb"
    /\ "path" \in DOMAIN last.response.body.f
    /\ last.outcome.value[1].path = "a/b.malloy"
    /\ last.outcome.value[1].package_name = "faa"

\* The messages of execute_query's except httpx.HTTPStatusError clause.
FixedMessages ==
    {"Bad request - invalid query parameters",
     "Unauthorized - authentication required",
     "Not found - project, package, or model not found",
     "Internal server error",
     "Not implemented"}

\* C11: execute_query treats a response with status >= 400 by the rule of
\* _handle_response, as every other operation does: what it raises is what
\* _handle_response raises for that response, an APIError it raises carries
\* the message decoded from the body (the body's message, or the decode
\* failure's text), and never one of the fixed per-status messages.
C11_ExecuteQueryUsesResponseRule ==
    (/\ Answered
     /\ last.op = "execute_query"
     /\ last.response.status_code >= 400)
        => /\ last.outcome = _handle_response(last.response)
           /\ last.outcome.kind = "APIError"
                => /\ last.outcome.message \notin FixedMessages
                   /\ last.outcome.message =
                         IF WellFormedError(last.response.body)
                         THEN last.response.body.f["message"]
                         ELSE ValidationErrorStr(
                                  Cardinality(FieldErrors("Error", last.response.body.f)))

C11_Witness ==
    /\ Answered
    /\ last.op = "execute_query"
    /\ last.response.status_code = 400
    /\ last.response.body.kind = "object"
    /\ "message" \notin DOMAIN last.response.body.f
    /\ last.outcome = APIError(400, ValidationErrorStr(1))

====
